---- MODULE Spec2Model ----
(***************************************************************************)
(* KnowledgeManager (backend/feddersen/util/knowledge_manager.py): the     *)
(* client that reconciles local documents with a remote knowledge store.   *)
(*                                                                         *)
(* A step of the model is what a coroutine does between two suspension     *)
(* points: it consumes the response of the request it awaits, runs the     *)
(* code that follows, and stops at the next request it issues (or at its   *)
(* return).  Requests in flight are the elements of net.  The remote store *)
(* answers a request when the response step is taken: with status 200      *)
(* ("ok"), with another status ("rejected"), or the transport raises       *)
(* ("raised"; no method of the class catches an exception).                *)
(*                                                                         *)
(* The remote store is the collaborator behind the HTTP interface: files   *)
(* and kbFiles are the file store and the attachment list of the one       *)
(* knowledge base the file operations are given, knowledge_bases the list  *)
(* behind GET /knowledge/.  An upload stores the document's metadata with  *)
(* the new file, an attach appends to the attachment list, a removal is    *)
(* accepted only for an attached file, and a create call accepts a name    *)
(* that is already taken.                                                  *)
(***************************************************************************)
EXTENDS Integers, Sequences, FiniteSets, TLC

\* ------------------------------------------------------------------ bounds
\* Input items (documents, file ids, names) submitted over all the calls of a
\* behaviour; a call takes at least one, so this bounds the calls as well.
MaxItems == 3
\* KnowledgeManager.batch_size as configured at construction.
batch_size == 2
\* Client sessions created before the caller stops entering session scopes.
MaxSessions == 3

\* --------------------------------------------------------------- constants
Callers == {"c1", "c2"}
None == 0
InFlight == -1
NoUrl == ""
Outcomes == {"ok", "rejected", "raised"}

\* Paths that exist on the local disk (Path.exists() in _send_file).
LocalFiles == {"a.md", "b.md", "c.md"}

Doc(path, url) == [path |-> path, url |-> url]

\* The documents a caller may pass: (file_path, ExtraMetadata.metadata.url).
Docs ==
    { Doc("a.md", "u1"), Doc("b.md", "u2"), Doc("c.md", "u3"),
      Doc("gone.md", "u2"), Doc("a.md", NoUrl) }

Min(a, b) == IF a <= b THEN a ELSE b

\* Mutant of Slice: the upper limit of the slice is lost.
SliceToEnd(s, i, n) == SubSeq(s, i + 1, Len(s))

\* s[i : i + n] of Python, i counted from 0 (add_files, lines 219-220).
Slice(s, i, n) == SubSeq(s, i + 1, Min(i + n, Len(s)))

Range(s) == { s[k] : k \in 1..Len(s) }

\* ------------------------------------------------------------------- state
VARIABLES
    files,            \* remote file store: files[id] is the URL embedded in the meta of file id
    kbFiles,          \* ids of the files attached to the knowledge base, in list order
    knowledge_bases,  \* remote knowledge bases: sequence of [id, name]
    nextKb,           \* the id the remote store gives the next knowledge base
    call,             \* per caller: the locals of the operation it runs
    prev,             \* per caller: what its previous completed call was and returned
    net,              \* requests in flight
    items,            \* input items submitted so far
    manager,          \* the KnowledgeManager object: what __init__ left in it
    sessions          \* the client sessions created so far, and the open ones

vars == <<files, kbFiles, knowledge_bases, nextKb, call, prev, net, items, manager,
          sessions>>

\* No KnowledgeManager has been constructed yet.
NoManager == [state |-> "none", batch_size |-> 0, session |-> None]

\* __init__, lines 63-78: batch_size is stored as given; the one check is
\* the ValueError of a missing API key, raised after batch_size is stored.
KnowledgeManager(has_api_key, b) ==
    IF has_api_key
    THEN [state |-> "ready", batch_size |-> b, session |-> None]
    ELSE [state |-> "failed", batch_size |-> b, session |-> None]

\* No client session has been created.
NoSessions == [created |-> 0, open |-> {}]

\* aiohttp.ClientSession(): the k-th session created from the state ss on.
ClientSession(ss, k) == ss.created + k

\* ss after n more sessions were created and left open.
Created(ss, n) ==
    [created |-> ss.created + n,
     open |-> ss.open \cup { ClientSession(ss, k) : k \in 1..n }]

\* __aenter__, line 82: the manager holds a new session.
aenter(m, ss) == [m EXCEPT !.session = ClientSession(ss, 1)]

\* __aexit__, lines 87-89: what the manager holds after the session is closed.
aexit(m) == [m EXCEPT !.session = None]

\* Mutant of get_session: a new session is created for every call.
get_session_fresh(m, ss, k) == ClientSession(ss, k)

\* _get_session, lines 93-95: the manager's session, or a new one (the k-th
\* created in this step) when it holds none.
get_session(m, ss, k) ==
    IF m.session = None THEN ClientSession(ss, k) ELSE m.session

\* The sessions n calls of _get_session create.
acquired(m, ss, n) ==
    Cardinality({ k \in 1..n : get_session(m, ss, k) \notin 1..ss.created })

\* A request in flight: who awaits it, what it asks, the offset of the batch
\* (or the index of the item) it belongs to, the slot of its task in
\* asyncio.gather, the URL an upload carries, and whether the operation that
\* awaited it has raised in the meantime.
Req(p, kind, batch, slot, url) ==
    [proc |-> p, kind |-> kind, batch |-> batch, slot |-> slot, url |-> url,
     orphan |-> FALSE, session |-> None]

\* One remote call issued by an operation, as remembered in call[p].sent.
Ev(kind, ids, url) == [kind |-> kind, ids |-> ids, url |-> url]

EmptyCall ==
    [op |-> "none", pc |-> "idle", docs |-> <<>>, file_ids |-> <<>>, name |-> "",
     fetched |-> FALSE, knowledge_files |-> <<>>, to_upload |-> <<>>, i |-> 0,
     tasks |-> <<>>, batch_file_ids |-> <<>>, file_id |-> None,
     file_item_url |-> NoUrl, results |-> <<>>, ret |-> None,
     warnings |-> 0, sent |-> <<>>, kbBefore |-> <<>>, faults |-> 0,
     raised_in |-> "", raised_slot |-> 0, gathered |-> <<>>]

Finished == {"idle", "done", "raised"}

\* GET /knowledge/{id}: the files of the knowledge base with their meta.
RemoteFileList == [k \in 1..Len(kbFiles) |-> [id |-> kbFiles[k], url |-> files[kbFiles[k]]]]

\* ---------------------------------------------------------------- add_files

\* add_files, lines 193-201: the URLs embedded in the fetched files' meta.
existing_files(knowledge_files) ==
    { knowledge_files[k].url :
        k \in { j \in 1..Len(knowledge_files) : knowledge_files[j].url # NoUrl } }

\* Mutant of is_new: the existing URLs are not consulted.
is_new_unchecked(doc, existing) == doc.url # NoUrl

\* add_files, line 210: the document is kept for upload.
is_new(doc, existing) == doc.url # NoUrl /\ doc.url \notin existing

\* Mutant of file_paths_to_upload: every document is kept.
file_paths_to_upload_all(docs, existing) == docs

\* add_files, lines 203-216.
file_paths_to_upload(docs, existing) ==
    SelectSeq(docs, LAMBDA d : is_new(d, existing))

\* _send_file, lines 576-579: a missing path returns None without a request.
path_exists(doc) == doc.path \in LocalFiles

\* _upload_files_batch, lines 445-449: one task per document of the batch.
upload_tasks(batch) ==
    [k \in 1..Len(batch) |-> IF path_exists(batch[k]) THEN InFlight ELSE None]

\* Mutant of gather_done: the wait ends with the first task that completes.
gather_first(tasks) == \E k \in 1..Len(tasks) : tasks[k] # InFlight

\* _upload_files_batch, line 452: asyncio.gather returns when every task has.
gather_done(tasks) == \A k \in 1..Len(tasks) : tasks[k] # InFlight

\* Mutant of uploaded_ids: the failed uploads are not dropped.
uploaded_ids_unfiltered(tasks) == tasks

\* _upload_files_batch, line 455: drop the failed uploads.
uploaded_ids(tasks) == SelectSeq(tasks, LAMBDA x : x # None)

\* A result record.  A key the code does not set holds None, NoUrl or "":
\*   file_id, file_name, success, error   as in the code's dict;
\*   result_id    result["id"] of an add_files success record;
\*   add_success  result["success"] of an update_files success record.
NoResult ==
    [file_id |-> None, file_name |-> NoUrl, success |-> FALSE, error |-> "",
     result_id |-> None, add_success |-> FALSE]

\* Mutant of batch_results: a rejected call is reported as accepted.
batch_results_optimistic(file_ids, ok) ==
    [k \in 1..Len(file_ids) |->
        [NoResult EXCEPT !.success = TRUE, !.result_id = file_ids[k]]]

\* Mutant of batch_results: a rejected call is reported for its first file
\* id only.
batch_results_first_only(file_ids, ok) ==
    IF ok
    THEN [k \in 1..Len(file_ids) |->
            [NoResult EXCEPT !.success = TRUE, !.result_id = file_ids[k]]]
    ELSE <<[NoResult EXCEPT !.file_id = file_ids[1],
                            !.error = "Batch operation failed"]>>

\* _add_files_to_kb_batch, lines 487-510: one record per file id of the call.
batch_results(file_ids, ok) ==
    [k \in 1..Len(file_ids) |->
        IF ok
        THEN [NoResult EXCEPT !.success = TRUE, !.result_id = file_ids[k]]
        ELSE [NoResult EXCEPT !.file_id = file_ids[k],
                              !.error = "Batch operation failed"]]

UploadEvents(batch) ==
    LET there == SelectSeq(batch, path_exists)
    IN  [k \in 1..Len(there) |-> Ev("upload", <<>>, there[k].url)]

\* range(start, stop, step), line 218: a step of 0 is a ValueError.
range_raises(step) == step = 0

\* range(start, stop, step): i is one of its values, given that i is start
\* plus a multiple of step (a negative step counts down from start).
in_range(i, stop, step) == IF step > 0 THEN i < stop ELSE i > stop

\* add_files, lines 218-232: the loop over the batches, from offset i up to
\* the next suspension point (the uploads of a batch in flight) or the return.
RECURSIVE add_files_loop(_, _, _)
add_files_loop(p, c, i) ==
    IF ~in_range(i, Len(c.to_upload), manager.batch_size)
    THEN [c |-> [c EXCEPT !.pc = "done", !.i = i], reqs |-> {}]
    ELSE LET batch == Slice(c.to_upload, i, manager.batch_size)
             tasks == upload_tasks(batch)
             reqs == { Req(p, "upload", i, k, batch[k].url) :
                         k \in { j \in 1..Len(batch) : tasks[j] = InFlight } }
             c1 == [c EXCEPT !.i = i, !.tasks = tasks, !.batch_file_ids = <<>>,
                             !.sent = @ \o UploadEvents(batch)]
         IN  IF reqs # {}
             THEN [c |-> [c1 EXCEPT !.pc = "upload_wait"], reqs |-> reqs]
             ELSE add_files_loop(p, [c1 EXCEPT !.gathered = Append(@, tasks)],
                                 i + manager.batch_size)

\* Mutant of after_upload_batch: the attach call is not awaited before the
\* next batch starts.
after_upload_batch_pipelined(p, c0) ==
    LET c == [c0 EXCEPT !.gathered = Append(@, c0.tasks)]
        ids == uploaded_ids(c.tasks)
        nx == add_files_loop(p, c, c.i + manager.batch_size)
    IN  IF ids # <<>>
        THEN [c |-> [nx.c EXCEPT !.pc = "attach_wait", !.batch_file_ids = ids,
                                 !.sent = Append(@, Ev("attach", ids, NoUrl))],
              reqs |-> {Req(p, "attach", c.i, 0, NoUrl)} \cup nx.reqs]
        ELSE nx

\* add_files, lines 223-230, once gather has returned: attach, or next batch.
\* gathered keeps what asyncio.gather returned for each batch (line 452).
after_upload_batch(p, c0) ==
    LET c == [c0 EXCEPT !.gathered = Append(@, c0.tasks)]
        ids == uploaded_ids(c.tasks)
    IN  IF ids # <<>>
        THEN [c |-> [c EXCEPT !.pc = "attach_wait", !.batch_file_ids = ids,
                              !.sent = Append(@, Ev("attach", ids, NoUrl))],
              reqs |-> {Req(p, "attach", c.i, 0, NoUrl)}]
        ELSE add_files_loop(p, c, c.i + manager.batch_size)

CanStart(p, n) ==
    /\ manager.state = "ready"
    /\ call[p].pc \in Finished /\ n >= 1 /\ items + n <= MaxItems

Summary(c) == [op |-> c.op, pc |-> c.pc, name |-> c.name, results |-> c.results,
               ret |-> c.ret, kbBefore |-> c.kbBefore]

\* The requests reqs, each sent through the session _get_session gives it
\* (lines 124, 142, 251, 409, 481, 540, 593, 628): the requests of one step
\* call it in the order of their slots.
through_sessions(reqs) ==
    { [q EXCEPT !.session =
          get_session(manager, sessions,
                      Cardinality({ q2 \in reqs : q2.slot <= q.slot }))] : q \in reqs }

Begin(p, n, c, reqs) ==
    /\ call' = [call EXCEPT ![p] = c]
    /\ prev' = [prev EXCEPT ![p] = Summary(call[p])]
    /\ net' = net \cup through_sessions(reqs)
    /\ sessions' = Created(sessions, acquired(manager, sessions, Cardinality(reqs)))
    /\ items' = items + n
    /\ UNCHANGED manager

\* add_files(knowledge_id, file_paths, metadata), up to the file-list request.
AddStart(p, docs) ==
    /\ CanStart(p, Len(docs))
    /\ Begin(p, Len(docs), [EmptyCall EXCEPT !.op = "add", !.pc = "list_wait", !.docs = docs,
                                  !.sent = <<Ev("list", <<>>, NoUrl)>>,
                                  !.kbBefore = kbFiles],
             {Req(p, "list", 0, 0, NoUrl)})
    /\ UNCHANGED <<files, kbFiles, knowledge_bases, nextKb>>

\* The awaiting coroutine resumes with the response o of r and runs to nx.
Step(p, r, o, nx) ==
    /\ call' = [call EXCEPT ![p] =
                  [nx.c EXCEPT !.faults = IF o = "ok" THEN @ ELSE @ + 1]]
    /\ IF call[p].op = "remove"
       THEN /\ net' = (net \ {r}) \cup { [q EXCEPT !.session = r.session] : q \in nx.reqs }
            /\ UNCHANGED sessions
       ELSE /\ net' = (net \ {r}) \cup through_sessions(nx.reqs)
            /\ sessions' = Created(sessions,
                                    acquired(manager, sessions, Cardinality(nx.reqs)))
    /\ UNCHANGED <<prev, items, manager>>

\* The exception of r leaves the operation: nothing in the class catches it.
\* The other tasks of asyncio.gather are not cancelled and go on alone.
Raise(p, r) ==
    /\ call' = [call EXCEPT ![p].pc = "raised", ![p].raised_in = r.kind,
                            ![p].raised_slot = r.slot]
    /\ net' = { [q EXCEPT !.orphan = (@ \/ q.proc = p)] : q \in net \ {r} }
    /\ UNCHANGED <<prev, items, manager, sessions>>

\* Mutant of retrieve_files_in_knowledge: the list is returned whatever the
\* status of the response.
retrieve_files_in_knowledge_lenient(o) == RemoteFileList

\* _retrieve_files_in_knowledge, lines 628-641.
retrieve_files_in_knowledge(o) == IF o = "ok" THEN RemoteFileList ELSE <<>>

\* add_files, lines 192-216 and on into the first batch.
AddListResponse(p, o) ==
    \E r \in net :
        /\ r.proc = p /\ r.kind = "list" /\ call[p].op = "add" /\ ~r.orphan
        /\ UNCHANGED <<files, kbFiles, knowledge_bases, nextKb>>
        /\ IF o = "raised"
           THEN Raise(p, r)
           ELSE LET kf == retrieve_files_in_knowledge(o)
                    up == file_paths_to_upload(call[p].docs, existing_files(kf))
                    c1 == [call[p] EXCEPT !.fetched = (o = "ok"),
                                          !.knowledge_files = kf,
                                          !.to_upload = up,
                                          !.warnings = Len(call[p].docs) - Len(up)]
                IN  IF range_raises(manager.batch_size)
                    THEN Step(p, r, o, [c |-> [c1 EXCEPT !.pc = "raised",
                                                         !.raised_in = "range"],
                                        reqs |-> {}])
                    ELSE Step(p, r, o, add_files_loop(p, c1, 0))

\* ------------------------------------------------------------- remove_files

\* POST /knowledge/{id}/file/remove: the store removes an attached file only.
RemoteRemove(fid) == SelectSeq(kbFiles, LAMBDA x : x # fid)

Attached(fid) == fid \in Range(kbFiles)

\* Mutant of remove_result: a rejected removal loses its file id.
remove_result_anonymous(fid, ok) ==
    IF ok
    THEN [NoResult EXCEPT !.file_id = fid, !.success = TRUE]
    ELSE [NoResult EXCEPT !.error = "rejected"]

\* remove_files, lines 261-273: the record of one removal.
remove_result(fid, ok) ==
    IF ok
    THEN [NoResult EXCEPT !.file_id = fid, !.success = TRUE]
    ELSE [NoResult EXCEPT !.file_id = fid, !.error = "rejected"]

\* remove_files, lines 253-275: the loop from the i-th id (from 0) up to its
\* next request or the return.
remove_files_loop(p, c, i) ==
    IF i >= Len(c.file_ids)
    THEN [c |-> [c EXCEPT !.pc = "done", !.i = i], reqs |-> {}]
    ELSE [c |-> [c EXCEPT !.pc = "remove_wait", !.i = i,
                          !.sent = Append(@, Ev("remove", <<c.file_ids[i + 1]>>, NoUrl))],
          reqs |-> {Req(p, "remove", i, 0, NoUrl)}]

\* remove_files(knowledge_id, file_ids), up to its first remove request.
RemoveStart(p, ids) ==
    /\ CanStart(p, Len(ids))
    /\ LET nx == remove_files_loop(p, [EmptyCall EXCEPT !.op = "remove", !.file_ids = ids,
                                                        !.kbBefore = kbFiles], 0)
       IN  Begin(p, Len(ids), nx.c, nx.reqs)
    /\ UNCHANGED <<files, kbFiles, knowledge_bases, nextKb>>

\* remove_files, lines 256-273, then the next id.
RemoveResponse(p, o) ==
    \E r \in net :
        /\ r.proc = p /\ r.kind = "remove" /\ call[p].op = "remove" /\ ~r.orphan
        /\ LET fid == call[p].file_ids[call[p].i + 1]
           IN  /\ o = "ok" => Attached(fid)
               /\ kbFiles' = IF o = "ok" THEN RemoteRemove(fid) ELSE kbFiles
               /\ IF o = "raised"
                  THEN Raise(p, r)
                  ELSE Step(p, r, o, remove_files_loop(p,
                           [call[p] EXCEPT !.results = Append(@, remove_result(fid, o = "ok"))],
                           call[p].i + 1))
        /\ UNCHANGED <<files, knowledge_bases, nextKb>>

\* ------------------------------------------------------------- update_files

\* The file record that stands for Python's None.
NoFile == [id |-> None, url |-> NoUrl]

\* _get_item_url_of_file, lines 292-298; the None it returns is NoUrl.
get_item_url_of_file(file) == IF file.id = None THEN NoUrl ELSE file.url

\* Mutant of get_file_meta_if_exists_in_knowledge: the scan does not stop at
\* the first match, the last one is returned.
get_file_meta_last_match(knowledge_files, file_metadata) ==
    LET hits == { k \in 1..Len(knowledge_files) :
                    /\ knowledge_files[k].url # NoUrl
                    /\ knowledge_files[k].url = file_metadata.url }
    IN  IF hits = {} THEN NoFile
        ELSE knowledge_files[CHOOSE k \in hits : \A j \in hits : k >= j]

\* Mutant of get_file_meta_if_exists_in_knowledge: a file is compared
\* whether or not it has an embedded URL.
get_file_meta_unguarded(knowledge_files, file_metadata) ==
    LET hits == { k \in 1..Len(knowledge_files) :
                    knowledge_files[k].url = file_metadata.url }
    IN  IF hits = {} THEN NoFile
        ELSE knowledge_files[CHOOSE k \in hits : \A j \in hits : k <= j]

\* Mutant of get_file_meta_if_exists_in_knowledge: without a match the first
\* file of the list is returned.
get_file_meta_or_first(knowledge_files, file_metadata) ==
    LET hits == { k \in 1..Len(knowledge_files) :
                    /\ knowledge_files[k].url # NoUrl
                    /\ knowledge_files[k].url = file_metadata.url }
    IN  IF hits # {} THEN knowledge_files[CHOOSE k \in hits : \A j \in hits : k <= j]
        ELSE IF knowledge_files = <<>> THEN NoFile ELSE knowledge_files[1]

\* _get_file_meta_if_exists_in_knowledge, lines 318-322: the first file of the
\* list whose embedded URL is the document's; None when there is none.
get_file_meta_if_exists_in_knowledge(knowledge_files, file_metadata) ==
    LET hits == { k \in 1..Len(knowledge_files) :
                    /\ knowledge_files[k].url # NoUrl
                    /\ knowledge_files[k].url = file_metadata.url }
    IN  IF hits = {} THEN NoFile
        ELSE knowledge_files[CHOOSE k \in hits : \A j \in hits : k <= j]

\* Mutant of update_result: the record is put in front of the list.
update_result_prepended(c, success, error, add_success) ==
    [c EXCEPT !.results = <<[NoResult EXCEPT !.file_name = c.file_item_url,
                                              !.success = success, !.error = error,
                                              !.add_success = add_success]>> \o @]

\* update_files, lines 365-371, 381-383, 385-391: the record of one document.
update_result(c, success, error, add_success) ==
    [c EXCEPT !.results = Append(@,
        [NoResult EXCEPT !.file_name = c.file_item_url, !.success = success,
                         !.error = error, !.add_success = add_success])]

\* update_files, lines 355-375: the loop from the i-th document (from 0) up to
\* its next request (the removal of a found file) or the return.
RECURSIVE update_files_loop(_, _, _)
update_files_loop(p, c, i) ==
    IF i >= Len(c.docs)
    THEN [c |-> [c EXCEPT !.pc = "done", !.i = i], reqs |-> {}]
    ELSE LET file == get_file_meta_if_exists_in_knowledge(c.knowledge_files, c.docs[i + 1])
             file_id == file.id
             c1 == [c EXCEPT !.i = i, !.file_id = file_id,
                             !.file_item_url = get_item_url_of_file(file)]
         IN  IF file_id = None
             THEN update_files_loop(p, update_result(c1, FALSE, "File not found", FALSE),
                                    i + 1)
             ELSE [c |-> [c1 EXCEPT !.pc = "remove_wait",
                                    !.sent = Append(@, Ev("remove", <<file_id>>, NoUrl))],
                   reqs |-> {Req(p, "remove", i, 0, NoUrl)}]

\* Mutant of upload_file_and_add_to_kb: the upload is started and not
\* awaited; the loop goes on with the next document.
upload_file_and_add_to_kb_eager(p, c) ==
    LET doc == c.docs[c.i + 1]
        c1 == [c EXCEPT !.sent = Append(@, Ev("upload", <<>>, doc.url))]
        nx == update_files_loop(p, update_result(c1, TRUE, "", FALSE), c.i + 1)
    IN  IF path_exists(doc)
        THEN [c |-> nx.c, reqs |-> {Req(p, "upload", c.i, 1, doc.url)} \cup nx.reqs]
        ELSE update_files_loop(p, update_result(c, TRUE, "", FALSE), c.i + 1)

\* Mutant of upload_file_and_add_to_kb: the replacement is never uploaded.
upload_file_and_add_to_kb_skipped(p, c) ==
    update_files_loop(p, update_result(c, TRUE, "", FALSE), c.i + 1)

\* _upload_file_and_add_to_kb, lines 535-537, after a removal that succeeded:
\* the upload request, or the failed add_result of a missing path.
upload_file_and_add_to_kb(p, c) ==
    LET doc == c.docs[c.i + 1]
    IN  IF path_exists(doc)
        THEN [c |-> [c EXCEPT !.pc = "upload_wait", !.tasks = <<InFlight>>,
                              !.sent = Append(@, Ev("upload", <<>>, doc.url))],
              reqs |-> {Req(p, "upload", c.i, 1, doc.url)}]
        ELSE update_files_loop(p, update_result(c, TRUE, "", FALSE), c.i + 1)

\* _upload_file_and_add_to_kb, lines 540-545: the single-file attach request.
upload_file_and_add_to_kb_attach(p, c, fid) ==
    [c |-> [c EXCEPT !.pc = "attach_wait", !.batch_file_ids = <<fid>>,
                     !.sent = Append(@, Ev("attach", <<fid>>, NoUrl))],
     reqs |-> {Req(p, "attach1", c.i, 0, NoUrl)}]

\* Mutant of after_remove: the replacement is uploaded whatever the removal
\* returned.
after_remove_unchecked(p, c, removed) == upload_file_and_add_to_kb(p, c)

\* update_files, lines 377-391: upload the replacement if the removal
\* succeeded, else record the failure and go on with the next document.
after_remove(p, c, removed) ==
    IF removed
    THEN upload_file_and_add_to_kb(p, c)
    ELSE update_files_loop(p, update_result(c, FALSE, "Failed to remove file", FALSE),
                           c.i + 1)

\* update_files(knowledge_id, file_paths, metadata), up to the file-list request.
UpdateStart(p, docs) ==
    /\ CanStart(p, Len(docs))
    /\ Begin(p, Len(docs),
             [EmptyCall EXCEPT !.op = "update", !.pc = "list_wait", !.docs = docs,
                               !.sent = <<Ev("list", <<>>, NoUrl)>>,
                               !.kbBefore = kbFiles],
             {Req(p, "list", 0, 0, NoUrl)})
    /\ UNCHANGED <<files, kbFiles, knowledge_bases, nextKb>>

\* update_files, lines 353-375.
UpdateListResponse(p, o) ==
    \E r \in net :
        /\ r.proc = p /\ r.kind = "list" /\ call[p].op = "update" /\ ~r.orphan
        /\ UNCHANGED <<files, kbFiles, knowledge_bases, nextKb>>
        /\ IF o = "raised"
           THEN Raise(p, r)
           ELSE Step(p, r, o, update_files_loop(p,
                    [call[p] EXCEPT !.fetched = (o = "ok"),
                                    !.knowledge_files = retrieve_files_in_knowledge(o)], 0))

\* update_files, lines 375-391: the removal's response, then the upload.
UpdateRemoveResponse(p, o) ==
    \E r \in net :
        /\ r.proc = p /\ r.kind = "remove" /\ call[p].op = "update" /\ ~r.orphan
        /\ o = "ok" => Attached(call[p].file_id)
        /\ kbFiles' = IF o = "ok" THEN RemoteRemove(call[p].file_id) ELSE kbFiles
        /\ UNCHANGED <<files, knowledge_bases, nextKb>>
        /\ IF o = "raised"
           THEN Raise(p, r)
           ELSE Step(p, r, o, after_remove(p, call[p], o = "ok"))

\* _upload_file_and_add_to_kb, lines 541-554, then update_files, lines 381-383.
UpdateAttachResponse(p, o) ==
    \E r \in net :
        /\ r.proc = p /\ r.kind = "attach1" /\ ~r.orphan
        /\ UNCHANGED <<files, knowledge_bases, nextKb>>
        /\ kbFiles' = IF o = "ok" THEN kbFiles \o call[p].batch_file_ids ELSE kbFiles
        /\ IF o = "raised"
           THEN Raise(p, r)
           ELSE Step(p, r, o, update_files_loop(p,
                    update_result(call[p], TRUE, "", o = "ok"), call[p].i + 1))

\* ------------------------------------------------- knowledge-base lifecycle

Names == {"kb"}

\* create_knowledge_if_not_exists, lines 130-132: the id of the first
\* knowledge base of the list with that name; None when there is none.
find_by_name(kbs, name) ==
    LET hits == { k \in 1..Len(kbs) : kbs[k].name = name }
    IN  IF hits = {} THEN None
        ELSE kbs[CHOOSE k \in hits : \A j \in hits : k <= j].id

\* create_knowledge_if_not_exists(name, ...), up to the list request.
CreateStart(p, name) ==
    /\ CanStart(p, 1)
    /\ Begin(p, 1, [EmptyCall EXCEPT !.op = "create", !.pc = "list_wait", !.name = name,
                                     !.sent = <<Ev("kblist", <<>>, NoUrl)>>],
             {Req(p, "kblist", 0, 0, NoUrl)})
    /\ UNCHANGED <<files, kbFiles, knowledge_bases, nextKb>>

\* create_knowledge_if_not_exists, lines 125-145.
KnowledgeListResponse(p, o) ==
    \E r \in net :
        /\ r.proc = p /\ r.kind = "kblist" /\ ~r.orphan
        /\ UNCHANGED <<files, kbFiles, knowledge_bases, nextKb>>
        /\ IF o = "raised"
           THEN Raise(p, r)
           ELSE LET found == IF o = "ok" THEN find_by_name(knowledge_bases, call[p].name)
                             ELSE None
                IN  IF found # None
                    THEN Step(p, r, o, [c |-> [call[p] EXCEPT !.pc = "done", !.ret = found,
                                                           !.fetched = TRUE],
                                     reqs |-> {}])
                    ELSE Step(p, r, o, [c |-> [call[p] EXCEPT !.pc = "create_wait",
                                                           !.fetched = (o = "ok"),
                                                           !.sent = Append(@, Ev("create", <<>>, NoUrl))],
                                     reqs |-> {Req(p, "create", 0, 0, NoUrl)}])

\* create_knowledge_if_not_exists, lines 146-161.
CreateResponse(p, o) ==
    \E r \in net :
        /\ r.proc = p /\ r.kind = "create" /\ ~r.orphan
        /\ UNCHANGED <<files, kbFiles>>
        /\ knowledge_bases' =
              IF o = "ok"
              THEN Append(knowledge_bases, [id |-> nextKb, name |-> call[p].name])
              ELSE knowledge_bases
        /\ nextKb' = IF o = "ok" THEN nextKb + 1 ELSE nextKb
        /\ IF o = "raised"
           THEN Raise(p, r)
           ELSE Step(p, r, o, [c |-> [call[p] EXCEPT !.pc = "done",
                                     !.ret = IF o = "ok" THEN nextKb ELSE None],
                            reqs |-> {}])

\* delete_knowledge(knowledge_id), up to the delete request.
DeleteStart(p, id) ==
    /\ CanStart(p, 1)
    /\ Begin(p, 1, [EmptyCall EXCEPT !.op = "delete", !.pc = "delete_wait",
                                     !.file_id = id,
                                     !.sent = <<Ev("delete", <<id>>, NoUrl)>>],
             {Req(p, "delete", 0, 0, NoUrl)})
    /\ UNCHANGED <<files, kbFiles, knowledge_bases, nextKb>>

\* delete_knowledge, lines 410-422.
DeleteResponse(p, o) ==
    \E r \in net :
        /\ r.proc = p /\ r.kind = "delete" /\ ~r.orphan
        /\ UNCHANGED <<files, kbFiles, nextKb>>
        /\ o = "ok" => \E k \in 1..Len(knowledge_bases) : knowledge_bases[k].id = call[p].file_id
        /\ knowledge_bases' =
              IF o = "ok"
              THEN SelectSeq(knowledge_bases, LAMBDA kb : kb.id # call[p].file_id)
              ELSE knowledge_bases
        /\ IF o = "raised"
           THEN Raise(p, r)
           ELSE Step(p, r, o, [c |-> [call[p] EXCEPT !.pc = "done",
                                     !.results = <<[NoResult EXCEPT !.success = (o = "ok"),
                                          !.error = IF o = "ok" THEN "" ELSE "rejected"]>>],
                            reqs |-> {}])

\* _send_file, lines 594-610, and the rest of the batch once gather returns.
UploadResponse(p, o) ==
    \E r \in net :
        /\ r.proc = p /\ r.kind = "upload" /\ ~r.orphan
        /\ UNCHANGED <<kbFiles, knowledge_bases, nextKb>>
        /\ files' = IF o = "ok" THEN Append(files, r.url) ELSE files
        /\ IF o = "raised"
           THEN Raise(p, r)
           ELSE LET fid == IF o = "ok" THEN Len(files) + 1 ELSE None
                    c1 == [call[p] EXCEPT !.tasks[r.slot] = fid]
                IN  IF call[p].op = "add"
                    THEN IF gather_done(c1.tasks)
                         THEN Step(p, r, o, after_upload_batch(p, c1))
                         ELSE Step(p, r, o, [c |-> c1, reqs |-> {}])
                    ELSE IF o = "ok"
                         THEN Step(p, r, o, upload_file_and_add_to_kb_attach(p, c1, fid))
                         ELSE Step(p, r, o, update_files_loop(p,
                                  update_result(c1, TRUE, "", FALSE), c1.i + 1))

\* _add_files_to_kb_batch, lines 482-512, then the next batch.
AttachResponse(p, o) ==
    \E r \in net :
        /\ r.proc = p /\ r.kind = "attach" /\ ~r.orphan
        /\ UNCHANGED <<files, knowledge_bases, nextKb>>
        /\ kbFiles' = IF o = "ok" THEN kbFiles \o call[p].batch_file_ids ELSE kbFiles
        /\ IF o = "raised"
           THEN Raise(p, r)
           ELSE LET c1 == [call[p] EXCEPT
                             !.results = @ \o batch_results(call[p].batch_file_ids, o = "ok")]
                IN  Step(p, r, o, add_files_loop(p, c1, c1.i + manager.batch_size))

\* An upload whose awaiting operation has already raised still completes.
OrphanResponse(o) ==
    \E r \in net :
        /\ r.orphan /\ o # "raised"
        /\ files' = IF o = "ok" THEN Append(files, r.url) ELSE files
        /\ net' = net \ {r}
        /\ UNCHANGED <<kbFiles, knowledge_bases, nextKb, call, prev, items, manager,
                       sessions>>

\* -------------------------------------------------------------- behaviours

\* The manager was constructed and its session scope entered (async with
\* manager); the knowledge base is empty.
Init ==
    /\ files = <<>>
    /\ kbFiles = <<>>
    /\ knowledge_bases = <<>>
    /\ nextKb = 1
    /\ call = [p \in Callers |-> EmptyCall]
    /\ prev = [p \in Callers |-> Summary(EmptyCall)]
    /\ net = {}
    /\ items = 0
    /\ manager = aenter(KnowledgeManager(TRUE, batch_size), NoSessions)
    /\ sessions = Created(NoSessions, 1)

Next ==
    \E p \in {"c1"} :
        \/ \E n \in 1..(MaxItems - items) :
            \/ \E docs \in [1..n -> Docs] : AddStart(p, docs)
            \/ \E docs \in [1..n -> Docs] : UpdateStart(p, docs)
            \/ \E ids \in [1..n -> 1..(Len(files) + 1)] : RemoveStart(p, ids)
        \/ \E name \in Names : CreateStart(p, name)
        \/ \E id \in 1..nextKb : DeleteStart(p, id)
        \/ \E o \in Outcomes :
            \/ AddListResponse(p, o)
            \/ UploadResponse(p, o)
            \/ AttachResponse(p, o)
            \/ OrphanResponse(o)
            \/ RemoveResponse(p, o)
            \/ UpdateListResponse(p, o)
            \/ UpdateRemoveResponse(p, o)
            \/ UpdateAttachResponse(p, o)
            \/ KnowledgeListResponse(p, o)
            \/ CreateResponse(p, o)
            \/ DeleteResponse(p, o)

Spec == Init /\ [][Next]_vars

\* The batch sizes a caller may construct a manager with.
BatchSizes == {-1, 0, 1, batch_size}

\* KnowledgeManager(base_url, api_key, batch_size).
Construct(has_api_key, b) ==
    /\ manager.state = "none"
    /\ manager' = KnowledgeManager(has_api_key, b)
    /\ UNCHANGED <<files, kbFiles, knowledge_bases, nextKb, call, prev, net, items,
                   sessions>>

\* Nothing is constructed yet; the remote store is empty.
InitConfig ==
    /\ files = <<>>
    /\ kbFiles = <<>>
    /\ knowledge_bases = <<>>
    /\ nextKb = 1
    /\ call = [p \in Callers |-> EmptyCall]
    /\ prev = [p \in Callers |-> Summary(EmptyCall)]
    /\ net = {}
    /\ items = 0
    /\ manager = NoManager
    /\ sessions = NoSessions

\* A manager is constructed with any batch size, then add_files is called.
NextConfig ==
    \/ \E has_api_key \in BOOLEAN, b \in BatchSizes : Construct(has_api_key, b)
    \/ \E p \in {"c1"} :
        \/ \E n \in 1..(MaxItems - items) :
              \E docs \in [1..n -> Docs] : AddStart(p, docs)
        \/ \E o \in Outcomes :
            \/ AddListResponse(p, o)
            \/ UploadResponse(p, o)
            \/ AttachResponse(p, o)
            \/ OrphanResponse(o)

SpecConfig == InitConfig /\ [][NextConfig]_vars

\* async with manager: __aenter__, lines 80-83, run by the caller between
\* two operations.
Enter ==
    /\ manager.state = "ready" /\ manager.session = None
    /\ \A p \in Callers : call[p].pc \in Finished
    /\ sessions.created < MaxSessions
    /\ manager' = aenter(manager, sessions)
    /\ sessions' = Created(sessions, 1)
    /\ UNCHANGED <<files, kbFiles, knowledge_bases, nextKb, call, prev, net, items>>

\* The end of the async with block: __aexit__, lines 85-89.
Exit ==
    /\ manager.session # None
    /\ \A p \in Callers : call[p].pc \in Finished
    /\ sessions' = [sessions EXCEPT !.open = @ \ {manager.session}]
    /\ manager' = aexit(manager)
    /\ UNCHANGED <<files, kbFiles, knowledge_bases, nextKb, call, prev, net, items>>

\* The manager was constructed; no session scope has been entered.
InitSession ==
    /\ files = <<>>
    /\ kbFiles = <<>>
    /\ knowledge_bases = <<>>
    /\ nextKb = 1
    /\ call = [p \in Callers |-> EmptyCall]
    /\ prev = [p \in Callers |-> Summary(EmptyCall)]
    /\ net = {}
    /\ items = 0
    /\ manager = KnowledgeManager(TRUE, batch_size)
    /\ sessions = NoSessions

\* The document the caller passes in the behaviours about sessions.
SessionDocs == { Doc("a.md", "u1") }

\* The operations, inside session scopes and outside them.
NextSession ==
    \/ Enter
    \/ Exit
    \/ \E p \in {"c1"} :
        \/ \E n \in 1..(MaxItems - items) :
            \/ \E docs \in [1..n -> SessionDocs] : AddStart(p, docs)
            \/ \E docs \in [1..n -> SessionDocs] : UpdateStart(p, docs)
            \/ \E ids \in [1..n -> 1..(Len(files) + 1)] : RemoveStart(p, ids)
        \/ \E name \in Names : CreateStart(p, name)
        \/ \E id \in 1..nextKb : DeleteStart(p, id)
        \/ \E o \in Outcomes :
            \/ AddListResponse(p, o)
            \/ UploadResponse(p, o)
            \/ AttachResponse(p, o)
            \/ OrphanResponse(o)
            \/ RemoveResponse(p, o)
            \/ UpdateListResponse(p, o)
            \/ UpdateRemoveResponse(p, o)
            \/ UpdateAttachResponse(p, o)
            \/ KnowledgeListResponse(p, o)
            \/ CreateResponse(p, o)
            \/ DeleteResponse(p, o)

SpecSession == InitSession /\ [][NextSession]_vars

\* The URLs of the files a knowledge base may hold when the manager is
\* first used on it, in list order.
InitialStores == { <<"u1">>, <<"u1", "u2">> }

\* A manager is constructed for a knowledge base that already holds files.
InitStored ==
    /\ files \in InitialStores
    /\ kbFiles = [k \in 1..Len(files) |-> k]
    /\ knowledge_bases = <<[id |-> 1, name |-> "kb"]>>
    /\ nextKb = 2
    /\ call = [p \in Callers |-> EmptyCall]
    /\ prev = [p \in Callers |-> Summary(EmptyCall)]
    /\ net = {}
    /\ items = 0
    /\ manager = aenter(KnowledgeManager(TRUE, batch_size), NoSessions)
    /\ sessions = Created(NoSessions, 1)

\* add_files and update_files on that knowledge base.
NextStored ==
    \E p \in {"c1"} :
        \/ \E n \in 1..(MaxItems - items) :
            \/ \E docs \in [1..n -> Docs] : AddStart(p, docs)
            \/ \E docs \in [1..n -> Docs] : UpdateStart(p, docs)
        \/ \E o \in Outcomes :
            \/ AddListResponse(p, o)
            \/ UploadResponse(p, o)
            \/ AttachResponse(p, o)
            \/ OrphanResponse(o)
            \/ UpdateListResponse(p, o)
            \/ UpdateRemoveResponse(p, o)
            \/ UpdateAttachResponse(p, o)

SpecStored == InitStored /\ [][NextStored]_vars

\* A knowledge base that holds a file uploaded without ExtraMetadata (its
\* meta has no embedded URL) before a file that has one.
LegacyStore == <<NoUrl, "u1">>

\* A manager is constructed for that knowledge base.
InitLegacy ==
    /\ files = LegacyStore
    /\ kbFiles = [k \in 1..Len(files) |-> k]
    /\ knowledge_bases = <<[id |-> 1, name |-> "kb"]>>
    /\ nextKb = 2
    /\ call = [p \in Callers |-> EmptyCall]
    /\ prev = [p \in Callers |-> Summary(EmptyCall)]
    /\ net = {}
    /\ items = 0
    /\ manager = aenter(KnowledgeManager(TRUE, batch_size), NoSessions)
    /\ sessions = Created(NoSessions, 1)

SpecLegacy == InitLegacy /\ [][NextStored]_vars

\* The documents of the callers that add to one knowledge base at a time.
RaceDocs == { Doc("a.md", "u1"), Doc("b.md", "u2") }

\* Two coroutines call add_files on the same manager and knowledge base:
\* each runs from one await to the next, in any interleaving.
NextRace ==
    \E p \in Callers :
        \/ \E n \in 1..(MaxItems - items) :
              \E docs \in [1..n -> RaceDocs] : AddStart(p, docs)
        \/ \E o \in Outcomes :
            \/ AddListResponse(p, o)
            \/ UploadResponse(p, o)
            \/ AttachResponse(p, o)
            \/ OrphanResponse(o)

SpecRace == Init /\ [][NextRace]_vars

\* ------------------------------------------------------------------ claims

\* The remote calls of kind `kind` an operation has issued, in order.
Sent(c, kind) == SelectSeq(c.sent, LAMBDA e : e.kind = kind)

\* The URLs carried by the files of the attachment list kb.
UrlsOf(kb) == { files[kb[k]] : k \in 1..Len(kb) } \ {NoUrl}

\* How many files of the attachment list kb carry URL u.
CountUrl(kb, u) == Cardinality({ k \in 1..Len(kb) : files[kb[k]] = u })

NoDuplicateUrl(kb) == \A u \in UrlsOf(kb) : CountUrl(kb, u) = 1

AllDistinct(s) == \A i, j \in 1..Len(s) : i # j => s[i] # s[j]

\* The operation ran with every path present and every response a 200.
Smooth(c) ==
    /\ c.pc = "done" /\ c.faults = 0
    /\ \A k \in 1..Len(c.docs) : path_exists(c.docs[k])

\* C1: starting from a knowledge base without duplicate URLs, a completed
\* add_files call leaves every URL carried by at most one attached file.
\* (Violated: add_files does not compare the documents of one input list
\* with each other, and takes a rejected file-list call for an empty list.)
C1_AddKeepsUrlsUnique ==
    \A p \in Callers :
        (call[p].op = "add" /\ call[p].pc = "done" /\ NoDuplicateUrl(call[p].kbBefore))
            => NoDuplicateUrl(kbFiles)

\* C2: adding a new document returns one successful result, and adding the
\* same URL again right after returns no result, uploads nothing, attaches
\* nothing and logs one warning (every remote call answering 200).
C2_IdempotentAdd ==
    \A p \in Callers :
        LET c == call[p]
            q == prev[p]
        IN  /\ ( /\ c.op = "add" /\ Smooth(c) /\ Len(c.docs) = 1
                 /\ c.docs[1].url # NoUrl
                 /\ c.docs[1].url \notin UrlsOf(c.kbBefore) )
                => /\ Len(c.results) = 1
                   /\ c.results[1].success
                   /\ files[c.results[1].result_id] = c.docs[1].url
                   /\ c.results[1].result_id \in Range(kbFiles)
            /\ ( /\ c.op = "add" /\ c.pc = "done" /\ c.fetched /\ Len(c.docs) = 1
                 /\ q.op = "add" /\ q.pc = "done" /\ Len(q.results) = 1
                 /\ q.results[1].success
                 /\ files[q.results[1].result_id] = c.docs[1].url )
                => /\ c.results = <<>>
                   /\ Sent(c, "upload") = <<>>
                   /\ Sent(c, "attach") = <<>>
                   /\ c.warnings = 1
                   /\ kbFiles = c.kbBefore

\* C2 witness: the second add of a URL has returned without a result.
C2_Witness ==
    LET c == call["c1"]
        q == prev["c1"]
    IN  /\ c.op = "add" /\ c.pc = "done" /\ c.fetched /\ Len(c.docs) = 1
        /\ q.op = "add" /\ q.pc = "done" /\ Len(q.results) = 1
        /\ q.results[1].success
        /\ files[q.results[1].result_id] = c.docs[1].url
        /\ c.results = <<>> /\ c.warnings = 1

\* C3: when one upload of a batch fails at transport level, the uploads of
\* the batch that returned a file id are still attached by the batch's
\* attach call.  (Violated: the exception leaves asyncio.gather and
\* add_files at once, so no attach call follows.)
C3_UploadFailureIsolated ==
    \A p \in Callers :
        LET c == call[p]
        IN  ( /\ c.op = "add" /\ c.raised_in = "upload"
              /\ \E k \in 1..Len(c.tasks) : c.tasks[k] > 0 )
            => /\ c.pc # "raised"
               /\ \E e \in Range(Sent(c, "attach")) :
                     \A k \in 1..Len(c.tasks) :
                        c.tasks[k] > 0 => c.tasks[k] \in Range(e.ids)

\* C4: update_files on documents whose URLs are carried by the knowledge
\* base removes, per document, exactly one file with that URL and attaches
\* exactly one new file with that URL; the number of attached files is
\* unchanged (removal, upload and attach answering 200).
C4_UpdateReplaces ==
    \A p \in Callers :
        LET c == call[p]
            rem == Sent(c, "remove")
            att == Sent(c, "attach")
        IN  ( /\ c.op = "update" /\ Smooth(c)
              /\ \A k \in 1..Len(c.docs) : c.docs[k].url \in UrlsOf(c.kbBefore) )
            => /\ Len(rem) = Len(c.docs)
               /\ Len(att) = Len(c.docs)
               /\ Len(Sent(c, "upload")) = Len(c.docs)
               /\ \A k \in 1..Len(c.docs) :
                     /\ Len(rem[k].ids) = 1 /\ Len(att[k].ids) = 1
                     /\ rem[k].ids[1] \in Range(c.kbBefore)
                     /\ rem[k].ids[1] \notin Range(kbFiles)
                     /\ files[rem[k].ids[1]] = c.docs[k].url
                     /\ att[k].ids[1] \notin Range(c.kbBefore)
                     /\ att[k].ids[1] \in Range(kbFiles)
                     /\ files[att[k].ids[1]] = c.docs[k].url
                     /\ CountUrl(kbFiles, c.docs[k].url) = CountUrl(c.kbBefore, c.docs[k].url)
               /\ Len(kbFiles) = Len(c.kbBefore)

\* C4 witness: an update of a carried URL has run to its end without a fault.
C4_Witness ==
    LET c == call["c1"]
    IN  /\ c.op = "update" /\ Smooth(c) /\ Len(c.docs) >= 1
        /\ \A k \in 1..Len(c.docs) : c.docs[k].url \in UrlsOf(c.kbBefore)
        /\ Len(Sent(c, "attach")) = Len(c.docs)
        /\ Len(kbFiles) = Len(c.kbBefore)

\* C5: a record of update_files with success = true means the replacement
\* was uploaded and attached, and the knowledge base holds as many files for
\* that URL as before.  (Violated: the record is built with success = true
\* whatever _upload_file_and_add_to_kb returned.)
C5_SuccessMeansReplaced ==
    \A p \in Callers :
        LET c == call[p]
        IN  (c.op = "update" /\ c.pc = "done")
            => \A k \in 1..Len(c.results) :
                  c.results[k].success
                    => /\ c.results[k].add_success
                       /\ CountUrl(kbFiles, c.results[k].file_name)
                            = CountUrl(c.kbBefore, c.results[k].file_name)

\* C6: add_files on N documents with distinct new URLs and batch size B
\* issues ceil(N/B) attach calls, the k-th carrying as many ids as the k-th
\* slice of the input (at most B), N distinct ids in all, and returns N
\* success records in input order (every remote call answering 200).
C6_BatchCount ==
    \A p \in Callers :
        LET c == call[p]
            att == Sent(c, "attach")
            N == Len(c.docs)
        IN  ( /\ c.op = "add" /\ Smooth(c)
              /\ AllDistinct([k \in 1..N |-> c.docs[k].url])
              /\ \A k \in 1..N : /\ c.docs[k].url # NoUrl
                                  /\ c.docs[k].url \notin UrlsOf(c.kbBefore) )
            => /\ Len(att) = (N + batch_size - 1) \div batch_size
               /\ \A k \in 1..Len(att) :
                     /\ Len(att[k].ids) <= batch_size
                     /\ Len(att[k].ids) = Min(batch_size, N - (k - 1) * batch_size)
               /\ Cardinality(UNION { Range(att[k].ids) : k \in 1..Len(att) }) = N
               /\ Len(c.results) = N
               /\ \A k \in 1..N :
                     /\ c.results[k].success
                     /\ files[c.results[k].result_id] = c.docs[k].url
                     /\ c.results[k].result_id \in Range(kbFiles)

\* C6 witness: more new documents than a batch holds were added in two or
\* more attach calls.
C6_Witness ==
    LET c == call["c1"]
        N == Len(c.docs)
    IN  /\ c.op = "add" /\ Smooth(c) /\ N > batch_size
        /\ AllDistinct([k \in 1..N |-> c.docs[k].url])
        /\ \A k \in 1..N : /\ c.docs[k].url # NoUrl
                            /\ c.docs[k].url \notin UrlsOf(c.kbBefore)
        /\ Len(Sent(c, "attach")) >= 2
        /\ Len(c.results) = N

\* C7: remove_files returns one record per input id, the i-th carrying the
\* i-th id, whatever was removed and whatever was rejected, and has issued
\* one remove call per input id, in input order.
C7_RemoveOrder ==
    \A p \in Callers :
        LET c == call[p]
        IN  (c.op = "remove" /\ c.pc = "done")
            => /\ Len(c.results) = Len(c.file_ids)
               /\ \A k \in 1..Len(c.file_ids) : c.results[k].file_id = c.file_ids[k]
               /\ Sent(c, "remove")
                    = [k \in 1..Len(c.file_ids) |-> Ev("remove", <<c.file_ids[k]>>, NoUrl)]
               /\ c.sent = Sent(c, "remove")

\* C7 witness: a removal of several ids has returned, one removed and one
\* rejected.
C7_Witness ==
    LET c == call["c1"]
    IN  /\ c.op = "remove" /\ c.pc = "done" /\ Len(c.file_ids) >= 2
        /\ \E k \in 1..Len(c.results) : c.results[k].success
        /\ \E k \in 1..Len(c.results) : ~c.results[k].success

\* C8: two create_knowledge_if_not_exists calls in a row with the same name
\* that both return an id return the same id, and one knowledge base has
\* that name afterwards.  (Violated: a rejected list call falls through to
\* the create call.)
C8_CreateIdempotent ==
    \A p \in Callers :
        LET c == call[p]
            q == prev[p]
        IN  ( /\ c.op = "create" /\ c.pc = "done" /\ c.ret # None
              /\ q.op = "create" /\ q.pc = "done" /\ q.ret # None
              /\ q.name = c.name )
            => /\ c.ret = q.ret
               /\ Cardinality({ k \in 1..Len(knowledge_bases) :
                                  knowledge_bases[k].name = c.name }) = 1

\* C9: while the attach request of a batch is in flight, no upload of that
\* batch is: every task of the batch has settled.
C9_AttachAfterUploads ==
    \A r \in net :
        (r.kind = "attach" /\ ~r.orphan)
            => /\ \A k \in 1..Len(call[r.proc].tasks) : call[r.proc].tasks[k] # InFlight
               /\ \A q \in net :
                     (q.proc = r.proc /\ q.kind = "upload" /\ ~q.orphan) => q.batch # r.batch

\* C9 witness: the attach request of a batch of two is in flight, and the
\* second upload of the batch completed before the first.
C9_Witness ==
    /\ \E r \in net : r.kind = "attach" /\ r.proc = "c1" /\ ~r.orphan
    /\ Len(call["c1"].tasks) = 2
    /\ call["c1"].tasks[1] > call["c1"].tasks[2]
    /\ call["c1"].tasks[2] > 0

\* C10: the requests add_files has in flight all belong to the batch it is
\* at: none of an earlier batch is left when a batch starts, and none of a
\* later batch has started.
C10_BatchesSequential ==
    \A r \in net :
        (call[r.proc].op = "add" /\ ~r.orphan /\ r.kind \in {"upload", "attach"})
            => /\ r.batch = call[r.proc].i
               /\ \A q \in net : (q.proc = r.proc /\ ~q.orphan) => q.batch = r.batch
               /\ Len(Sent(call[r.proc], "attach")) <= r.batch \div batch_size + 1

\* C10 witness: an upload of the second batch is in flight after the attach
\* call of the first batch.
C10_Witness ==
    \E r \in net :
        /\ r.proc = "c1" /\ r.kind = "upload" /\ ~r.orphan /\ r.batch > 0
        /\ call["c1"].op = "add"
        /\ Len(Sent(call["c1"], "attach")) = 1

\* The documents of an add_files call whose upload request is issued: the
\* ones kept for upload whose path exists.
Uploadable(c) == SelectSeq(c.to_upload, path_exists)

\* C11: add_files, update_files and remove_files never raise, whatever the
\* remote calls answer: an operation that has ended has returned, and every
\* input item has been processed, once the file list is fetched.  (Violated:
\* no method catches an exception of the HTTP client, so an item's remote
\* call that raises ends the operation with the items after it untouched:
\* the code bug of C3.)
C11_NoItemAborts ==
    \A p \in Callers :
        LET c == call[p]
        IN  ( /\ c.op \in {"add", "update", "remove"}
              /\ c.pc \in {"done", "raised"}
              /\ c.raised_in # "list" )
            => /\ c.pc = "done"
               /\ c.op = "remove" => Len(Sent(c, "remove")) = Len(c.file_ids)
               /\ c.op = "update" => Len(c.results) = Len(c.docs)
               /\ c.op = "add" => Len(Sent(c, "upload")) = Len(Uploadable(c))

\* C12: the list add_files returns has one entry per document it attempted
\* (kept after the duplicate filter), whatever uploads and attach calls
\* failed.  (Violated: a document whose upload returned no file id gets no
\* entry at all.)
C12_OneResultPerAttempted ==
    \A p \in Callers :
        LET c == call[p]
        IN  (c.op = "add" /\ c.pc = "done")
            => Len(c.results) = Len(c.to_upload)

\* C13: no manager exists with a batch size below 1, and no add_files call
\* runs with one.  (Violated: __init__ stores batch_size unchecked; with 0
\* add_files raises ValueError after its file-list call, with a negative
\* size it returns [] without an upload.)
C13_BatchSizeValidated ==
    /\ manager.state = "ready" => manager.batch_size >= 1
    /\ \A p \in Callers : call[p].op = "add" => manager.batch_size >= 1

\* The k-th document of an update_files call has a file in the fetched list:
\* some file of the list carries the document's URL.
Found(c, k) ==
    \E j \in 1..Len(c.knowledge_files) :
        /\ c.knowledge_files[j].url # NoUrl
        /\ c.knowledge_files[j].url = c.docs[k].url

\* C14: when the remove call of a document of update_files is rejected, the
\* step that takes the answer appends the failure record of that document,
\* issues no upload and no attach call, leaves the remote store as it is,
\* and goes on to the next document (its remove call, or the return).
C14_RemovalFailed ==
    [][ \A p \in Callers :
          LET c == call[p]
              d == call'[p]
          IN  (c.op = "update" /\ c.pc = "remove_wait" /\ d.faults = c.faults + 1)
              => /\ Len(d.results) > Len(c.results)
                 /\ d.results[Len(c.results) + 1]
                      = [NoResult EXCEPT !.file_name = c.docs[c.i + 1].url,
                                         !.error = "Failed to remove file"]
                 /\ Sent(d, "upload") = Sent(c, "upload")
                 /\ Sent(d, "attach") = Sent(c, "attach")
                 /\ files' = files /\ kbFiles' = kbFiles
                 /\ d.i > c.i
                 /\ d.pc \in {"remove_wait", "done"}
                 /\ d.pc = "done" => Len(d.results) = Len(d.docs)
                 /\ d.pc = "remove_wait"
                      => /\ Len(Sent(d, "remove")) = Len(Sent(c, "remove")) + 1
                         /\ Len(d.results) = d.i
      ]_vars

\* C14 witness: the removal of the first document was rejected, and the
\* second document was then removed and replaced.
C14_Witness ==
    LET c == call["c1"]
    IN  /\ c.op = "update" /\ c.pc = "done" /\ Len(c.docs) >= 2
        /\ c.results[1].error = "Failed to remove file"
        /\ c.results[2].success /\ c.results[2].add_success
        /\ Len(Sent(c, "upload")) = 1

\* C15: in update_files a document whose URL no file of the fetched list
\* carries gets the record "File not found" and no remote call: every
\* remove, upload and attach call belongs to a document that was found, and
\* the documents after it are processed.
C15_NotFound ==
    \A p \in Callers :
        LET c == call[p]
            reached == IF c.pc = "done" THEN Len(c.docs) ELSE c.i + 1
            found == { k \in 1..reached : Found(c, k) }
        IN  (c.op = "update" /\ c.pc # "list_wait" /\ c.raised_in # "list")
            => /\ \A k \in 1..Len(c.results) :
                     ~Found(c, k)
                        => c.results[k] = [NoResult EXCEPT !.error = "File not found"]
               /\ Len(c.results) = IF c.pc = "done" THEN Len(c.docs) ELSE c.i
               /\ c.pc # "done" => Found(c, c.i + 1)
               /\ Len(Sent(c, "remove")) = Cardinality(found)
               /\ Len(Sent(c, "upload")) <= Cardinality(found)
               /\ Len(Sent(c, "attach")) <= Cardinality(found)
               /\ \A e \in Range(Sent(c, "remove")) \cup Range(Sent(c, "upload")) :
                     \E k \in found :
                        c.docs[k].url = IF e.kind = "upload" THEN e.url ELSE files[e.ids[1]]

\* C15 witness: the first document was not found, the second was found and
\* replaced.
C15_Witness ==
    LET c == call["c1"]
    IN  /\ c.op = "update" /\ c.pc = "done" /\ Len(c.docs) >= 2
        /\ ~Found(c, 1) /\ Found(c, 2)
        /\ c.results[1].error = "File not found"
        /\ c.results[2].success
        /\ Len(Sent(c, "remove")) = 1

\* C16: update_files returns one record per input document, the k-th being
\* the k-th document's: it names the URL of the file found for it (None when
\* none was) and is "File not found" exactly when no file was found.
C16_UpdateOrder ==
    \A p \in Callers :
        LET c == call[p]
        IN  (c.op = "update" /\ c.pc = "done")
            => /\ Len(c.results) = Len(c.docs)
               /\ \A k \in 1..Len(c.docs) :
                     /\ c.results[k].file_name
                          = IF Found(c, k) THEN c.docs[k].url ELSE NoUrl
                     /\ (c.results[k].error = "File not found") <=> ~Found(c, k)
                     /\ c.results[k].success
                          <=> c.results[k].error \notin {"File not found", "Failed to remove file"}

\* C16 witness: three documents, one not found, one whose removal was
\* rejected, one replaced.
C16_Witness ==
    LET c == call["c1"]
    IN  /\ c.op = "update" /\ c.pc = "done" /\ Len(c.docs) = 3
        /\ \E k \in 1..3 : c.results[k].error = "File not found"
        /\ \E k \in 1..3 : c.results[k].error = "Failed to remove file"
        /\ \E k \in 1..3 : c.results[k].success /\ c.results[k].add_success

\* The file ids reported by the success records of an add_files call.
SuccessIds(results) ==
    LET ok == SelectSeq(results, LAMBDA r : r.success)
    IN  [k \in 1..Len(ok) |-> ok[k].result_id]

\* C17: every success record of a returned add_files call names a file that
\* is attached and was not before; a remove_files call given exactly the ids
\* the previous add reported finds each of them attached when it asks for
\* its removal, and, its removals accepted, succeeds for each and leaves the
\* attachment list as it was before the add.
C17_AddRemoveRoundTrip ==
    \A p \in Callers :
        LET c == call[p]
            q == prev[p]
        IN  /\ (c.op = "add" /\ c.pc = "done")
                => \A k \in 1..Len(c.results) :
                      c.results[k].success
                        => /\ c.results[k].result_id \in Range(kbFiles)
                           /\ c.results[k].result_id \notin Range(c.kbBefore)
            /\ ( /\ c.op = "remove" /\ q.op = "add" /\ q.pc = "done"
                 /\ c.file_ids = SuccessIds(q.results) )
                => /\ \A k \in 1..Len(c.file_ids) : c.file_ids[k] \in Range(c.kbBefore)
                   /\ (c.pc = "remove_wait" /\ c.faults = 0)
                        => c.file_ids[c.i + 1] \in Range(kbFiles)
                   /\ (c.pc = "done" /\ c.faults = 0)
                        => /\ \A k \in 1..Len(c.results) : c.results[k].success
                           /\ kbFiles = q.kbBefore

\* C17 witness: the file a successful add reported was removed again from a
\* knowledge base that held another file before the add.
C17_Witness ==
    LET c == call["c1"]
        q == prev["c1"]
    IN  /\ c.op = "remove" /\ c.pc = "done" /\ c.faults = 0
        /\ q.op = "add" /\ q.pc = "done" /\ q.kbBefore # <<>>
        /\ c.file_ids = SuccessIds(q.results)
        /\ c.results[1].success
        /\ kbFiles = q.kbBefore

\* The ids of the first n attach calls, in the order they were sent.
RECURSIVE ConcatIds(_, _)
ConcatIds(att, n) == IF n = 0 THEN <<>> ELSE ConcatIds(att, n - 1) \o att[n].ids

\* The attach call that carried the m-th of those ids.
CallOf(att, m) ==
    CHOOSE k \in 1..Len(att) :
        Len(ConcatIds(att, k - 1)) < m /\ m <= Len(ConcatIds(att, k))

\* The attach calls of an add_files call that have been answered.
Answered(c) ==
    IF c.pc = "attach_wait" \/ (c.pc = "raised" /\ c.raised_in = "attach")
    THEN Len(Sent(c, "attach")) - 1
    ELSE Len(Sent(c, "attach"))

\* The number of batches of n documents.
Batches(n) == (n + batch_size - 1) \div batch_size

\* C18: the records of add_files are those of its answered attach calls, one
\* per file id sent: the ids of one call all get a success record carrying
\* the id (the call was accepted, the files are attached) or all get a
\* failure record carrying the id and one error message (the call was
\* rejected, none is attached); whatever was rejected, a call that returns
\* has uploaded every batch.
C18_AttachUniform ==
    \A p \in Callers :
        LET c == call[p]
            att == Sent(c, "attach")
            ids == ConcatIds(att, Answered(c))
        IN  c.op = "add"
            => /\ Len(c.results) = Len(ids)
               /\ \A m \in 1..Len(ids) :
                     /\ c.results[m].success <=> ids[m] \in Range(kbFiles)
                     /\ c.results[m].success
                          => c.results[m] = [NoResult EXCEPT !.success = TRUE,
                                                             !.result_id = ids[m]]
                     /\ ~c.results[m].success
                          => /\ c.results[m].file_id = ids[m]
                             /\ c.results[m].error # ""
               /\ \A m, n \in 1..Len(ids) :
                     CallOf(att, m) = CallOf(att, n)
                        => /\ c.results[m].success = c.results[n].success
                           /\ c.results[m].error = c.results[n].error
               /\ c.pc = "done"
                    => /\ Len(c.gathered) = Batches(Len(c.to_upload))
                       /\ Len(Sent(c, "upload")) = Len(Uploadable(c))

\* C18 witness: the attach call of the first batch of two was rejected, the
\* second batch was uploaded and attached.
C18_Witness ==
    LET c == call["c1"]
        att == Sent(c, "attach")
    IN  /\ c.op = "add" /\ c.pc = "done" /\ Len(att) = 2
        /\ Len(att[1].ids) = 2
        /\ ~c.results[1].success /\ ~c.results[2].success
        /\ c.results[3].success
        /\ c.results[3].result_id \in Range(kbFiles)

\* The file ids among what asyncio.gather returned for a batch.
FileIds(t) == SelectSeq(t, LAMBDA x : x > 0)

\* The id a record of add_files carries.
IdOf(r) == IF r.success THEN r.result_id ELSE r.file_id

\* C19: add_files has sent one attach call per gathered batch with a file
\* id and none for the others; the call of a batch carries the ids its
\* uploads returned, in the order of the batch's documents, each id being
\* the file of its document; the records follow the order of the ids sent.
C19_AttachPerBatch ==
    \A p \in Callers :
        LET c == call[p]
            att == Sent(c, "attach")
            g == c.gathered
            withIds == SelectSeq(g, LAMBDA t : FileIds(t) # <<>>)
        IN  c.op = "add"
            => /\ Len(att) = Len(withIds)
               /\ \A k \in 1..Len(att) : att[k].ids = FileIds(withIds[k])
               /\ \A j \in 1..Len(g) : \A k \in 1..Len(g[j]) :
                     g[j][k] > 0
                        => files[g[j][k]] = c.to_upload[(j - 1) * batch_size + k].url
               /\ [m \in 1..Len(c.results) |-> IdOf(c.results[m])]
                    = ConcatIds(att, Answered(c))
               /\ Cardinality({ r \in net : r.proc = p /\ r.kind = "attach" }) <= 1

\* C19 witness: of a batch of two one upload failed and the other's id was
\* attached alone; the next batch had no upload that returned an id and got
\* no attach call.
C19_Witness ==
    LET c == call["c1"]
        att == Sent(c, "attach")
    IN  /\ c.op = "add" /\ c.pc = "done" /\ Len(c.gathered) = 2
        /\ c.gathered[1][1] = None /\ c.gathered[1][2] > 0
        /\ FileIds(c.gathered[2]) = <<>>
        /\ att = <<Ev("attach", <<c.gathered[1][2]>>, NoUrl)>>
        /\ Len(c.results) = 1

\* The URLs the fetched file list carries.
ExistingUrls(c) ==
    { c.knowledge_files[j].url : j \in 1..Len(c.knowledge_files) } \ {NoUrl}

\* The documents of an add_files call that are not skipped.
Kept(c) ==
    SelectSeq(c.docs, LAMBDA d : d.url # NoUrl /\ d.url \notin ExistingUrls(c))

\* C20: once add_files has its file list, the documents whose URL the list
\* carries are out: no upload carries such a URL, no attached or reported
\* file is such a document's, one warning is logged per document left out,
\* and the batches are cut from the documents kept, each batch but the last
\* holding batch_size of them.
C20_SkippedLeaveNoTrace ==
    \A p \in Callers :
        LET c == call[p]
            att == Sent(c, "attach")
        IN  (c.op = "add" /\ c.pc # "list_wait" /\ c.raised_in # "list")
            => /\ c.to_upload = Kept(c)
               /\ c.warnings = Len(c.docs) - Len(Kept(c))
               /\ \A e \in Range(Sent(c, "upload")) : e.url \notin ExistingUrls(c)
               /\ \A k \in 1..Len(att) : \A m \in 1..Len(att[k].ids) :
                     files[att[k].ids[m]] \notin ExistingUrls(c)
               /\ \A m \in 1..Len(c.results) :
                     files[IdOf(c.results[m])] \notin ExistingUrls(c)
               /\ Len(c.results) <= Len(Kept(c))
               /\ \A j \in 1..Len(c.gathered) :
                     Len(c.gathered[j])
                        = Min(batch_size, Len(Kept(c)) - (j - 1) * batch_size)
               /\ c.pc = "done" => Len(c.gathered) = Batches(Len(Kept(c)))

\* C20 witness: of three documents the first was already present; the two
\* others went into one batch and one attach call.
C20_Witness ==
    LET c == call["c1"]
        att == Sent(c, "attach")
    IN  /\ c.op = "add" /\ c.pc = "done" /\ c.faults = 0 /\ Len(c.docs) = 3
        /\ c.docs[1].url \in ExistingUrls(c)
        /\ Len(Kept(c)) = 2
        /\ c.warnings = 1
        /\ Len(att) = 1 /\ Len(att[1].ids) = 2
        /\ Len(c.results) = 2

\* C21: add_files has not returned, normally or by raising, while an upload
\* it started is still in flight.  (Violated: asyncio.gather hands the first
\* exception to add_files at once and leaves the other uploads of the batch
\* running: the code bug of C3.)
C21_NoReturnDuringFanOut ==
    \A p \in Callers :
        (call[p].op = "add" /\ call[p].pc \in {"done", "raised"})
            => ~\E r \in net : r.proc = p /\ r.kind = "upload"

\* The requests an operation that has not ended has in flight.
InFlightOf(p) == { r \in net : r.proc = p /\ ~r.orphan }

\* C22: while add_files runs, it has at most batch_size upload requests in
\* flight, and a list or attach request of it is in flight alone.
C22_BoundedFanOut ==
    \A p \in Callers :
        (call[p].op = "add" /\ call[p].pc \notin Finished)
            => /\ Cardinality({ r \in InFlightOf(p) : r.kind = "upload" }) <= batch_size
               /\ \A r \in InFlightOf(p) :
                     /\ r.kind \in {"list", "upload", "attach"}
                     /\ r.kind # "upload" => InFlightOf(p) = {r}

\* C22 witness: a full batch of uploads is in flight while more documents
\* than a batch holds are to be uploaded.
C22_Witness ==
    /\ call["c1"].op = "add" /\ call["c1"].pc = "upload_wait"
    /\ Len(call["c1"].to_upload) > batch_size
    /\ Cardinality({ r \in InFlightOf("c1") : r.kind = "upload" }) = batch_size

\* The kinds of the remote calls an operation has issued, in order.
Kinds(c) == [k \in 1..Len(c.sent) |-> c.sent[k].kind]

\* C23: update_files has at most one request in flight, the one it issued
\* last and for the document it is at; an upload follows the remove call of
\* its document directly and an attach call follows the upload directly, so
\* a remove call is issued only when the document before is finished.
C23_UpdateSequential ==
    \A p \in Callers :
        LET c == call[p]
            ks == Kinds(c)
        IN  c.op = "update"
            => /\ Cardinality(InFlightOf(p)) <= 1
               /\ (c.pc \notin Finished) <=> (InFlightOf(p) # {})
               /\ \A r \in InFlightOf(p) :
                     /\ r.batch = c.i
                     /\ ks[Len(ks)] = IF r.kind = "attach1" THEN "attach" ELSE r.kind
               /\ \A k \in 1..Len(ks) :
                     /\ ks[k] = "list" <=> k = 1
                     /\ ks[k] = "upload" => ks[k - 1] = "remove"
                     /\ ks[k] = "attach" => ks[k - 1] = "upload"
                     /\ ks[k] = "remove" => ks[k - 1] \in {"list", "remove", "upload", "attach"}

\* C23 witness: the second document's remove call is in flight after the
\* first document was removed, uploaded and attached.
C23_Witness ==
    LET c == call["c1"]
    IN  /\ c.op = "update" /\ c.pc = "remove_wait" /\ c.i = 1
        /\ Kinds(c) = <<"list", "remove", "upload", "attach", "remove">>
        /\ Cardinality(InFlightOf("c1")) = 1

\* The places in the fetched list of the files that carry the URL of the
\* k-th document of an update_files call.
Matches(c, k) ==
    { j \in 1..Len(c.knowledge_files) :
        /\ c.docs[k].url # NoUrl
        /\ c.knowledge_files[j].url = c.docs[k].url }

\* The documents update_files has come to, in order, that have a match.
Resolved(c) ==
    LET reached == IF c.pc = "done" THEN Len(c.docs) ELSE c.i + 1
    IN  SelectSeq([k \in 1..reached |-> k], LAMBDA k : Matches(c, k) # {})

\* C24: update_files issues one remove call per document that has a match
\* in the fetched list, and the call targets the file at the first matching
\* place of the list, however many files carry the URL.
C24_FirstMatchWins ==
    \A p \in Callers :
        LET c == call[p]
            rem == Sent(c, "remove")
            res == Resolved(c)
        IN  (c.op = "update" /\ c.pc # "list_wait" /\ c.raised_in # "list")
            => /\ Len(rem) = Len(res)
               /\ \A n \in 1..Len(rem) :
                     \E j \in Matches(c, res[n]) :
                        /\ \A j2 \in Matches(c, res[n]) : j <= j2
                        /\ rem[n].ids = <<c.knowledge_files[j].id>>

\* C24 witness: two files of the fetched list carry the document's URL and
\* the one remove call of the update targeted the first of them.
C24_Witness ==
    LET c == call["c1"]
    IN  /\ c.op = "update" /\ c.pc = "done" /\ Len(c.docs) = 1
        /\ Cardinality(Matches(c, 1)) = 2
        /\ Sent(c, "remove") = <<Ev("remove", <<c.knowledge_files[1].id>>, NoUrl)>>
        /\ c.knowledge_files[1].id \notin Range(kbFiles)
        /\ c.knowledge_files[2].id \in Range(kbFiles)

\* The attached files of kb whose meta has no embedded URL.
WithoutMetadata(kb) == { id \in Range(kb) : files[id] = NoUrl }

\* C25: files without embedded metadata stay out of identity resolution:
\* add_files keeps every document whose URL no attached file carries,
\* whatever files without metadata the list holds; update_files never
\* targets such a file, reports a document without URL as not found, and
\* the files without metadata stay attached.
C25_NoMetadataNoIdentity ==
    \A p \in Callers :
        LET c == call[p]
        IN  /\ c.op \in {"add", "update"}
                => WithoutMetadata(c.kbBefore) \subseteq Range(kbFiles)
            /\ (c.op = "add" /\ c.fetched)
                => /\ c.to_upload
                        = SelectSeq(c.docs, LAMBDA d : /\ d.url # NoUrl
                                                       /\ d.url \notin UrlsOf(c.kbBefore))
                   /\ c.warnings = Len(c.docs) - Len(c.to_upload)
            /\ c.op = "update"
                => /\ \A e \in Range(Sent(c, "remove")) : files[e.ids[1]] # NoUrl
                   /\ \A k \in 1..Len(c.results) :
                         c.docs[k].url = NoUrl
                            => c.results[k] = [NoResult EXCEPT !.error = "File not found"]

\* C25 witness: the fetched list held a file without metadata and the call
\* had a document without URL; no remove call was issued and the file is
\* still attached.
C25_Witness ==
    LET c == call["c1"]
    IN  /\ c.op = "update" /\ c.pc = "done" /\ c.fetched
        /\ \E j \in 1..Len(c.knowledge_files) : c.knowledge_files[j].url = NoUrl
        /\ \E k \in 1..Len(c.docs) : c.docs[k].url = NoUrl
        /\ Sent(c, "remove") = <<>>
        /\ WithoutMetadata(c.kbBefore) # {}
        /\ WithoutMetadata(c.kbBefore) \subseteq Range(kbFiles)

\* C26: every record update_files returns names its document: file_name is
\* not None.  (Violated: file_name is the URL of the file found, which is
\* None for a document that was not found.)
C26_RecordsNameTheirDocument ==
    \A p \in Callers :
        LET c == call[p]
        IN  (c.op = "update" /\ c.pc = "done")
            => \A k \in 1..Len(c.results) : c.results[k].file_name # NoUrl

\* C27: while the manager holds a session, that session is open and every
\* request of a running operation goes through it; no session is created
\* while the scope lasts; leaving the scope closes the session and leaves
\* the manager without one; entering a scope gives the manager a session
\* that did not exist before.
C27_OneSessionPerScope ==
    /\ [](manager.session # None
            => /\ manager.session \in sessions.open
               /\ \A r \in net : ~r.orphan => r.session = manager.session)
    /\ [][((manager.session # None /\ manager'.session = manager.session)
                => sessions' = sessions)
           /\ ((manager.session # None /\ manager'.session # manager.session)
                => (manager'.session = None
                    /\ manager.session \notin sessions'.open))
           /\ ((manager.session = None /\ manager'.session # None)
                => (manager'.session \notin 1..sessions.created
                    /\ manager'.session \in sessions'.open))]_vars

\* C27 witness: in a second scope a request is in flight through the
\* scope's session; the session of the first scope is closed.
C27_Witness ==
    /\ manager.session # None /\ manager.session > 1
    /\ 1 \notin sessions.open
    /\ \E r \in net : r.proc = "c1" /\ ~r.orphan /\ r.session = manager.session

\* C28: an operation that has returned outside every session scope has
\* left no session open.  (Violated: _get_session creates a ClientSession
\* that nothing closes.)
C28_SessionsClosed ==
    \A p \in Callers :
        (call[p].pc = "done" /\ manager.session = None) => sessions.open = {}

\* C29: while a remove call of update_files is in flight, the file it
\* targets is attached to the knowledge base.  (Violated: the file list is
\* fetched once, so the second of two documents with the same URL is
\* resolved to the file that the first one has already removed.)
C29_RemoveTargetsAttached ==
    \A p \in Callers :
        LET c == call[p]
        IN  (c.op = "update" /\ c.pc = "remove_wait") => Attached(c.file_id)

\* The file-list call of c was answered with a non-success status.
ListRejected(c) ==
    /\ c.op \in {"add", "update"}
    /\ c.pc \notin {"idle", "list_wait"}
    /\ ~c.fetched /\ c.raised_in # "list"

\* The URLs of the upload calls of c, in the order they were issued.
UploadedUrls(c) ==
    [k \in 1..Len(Sent(c, "upload")) |-> Sent(c, "upload")[k].url]

\* C30: a rejected file-list call does not raise and leaves the list empty:
\* add_files then selects every document that has a URL, in input order,
\* and has uploaded every one of them whose path exists when it returns;
\* update_files issues no remove and no upload call and returns one
\* "File not found" record per document.
C30_RejectedListIsEmpty ==
    /\ [](\A p \in Callers :
            LET c == call[p]
                withUrl == SelectSeq(c.docs, LAMBDA d : d.url # NoUrl)
                onDisk == SelectSeq(withUrl, path_exists)
            IN  ListRejected(c)
                => /\ c.knowledge_files = <<>>
                   /\ c.op = "add"
                        => /\ c.to_upload = withUrl
                           /\ c.pc = "done"
                                => UploadedUrls(c) = [k \in 1..Len(onDisk) |-> onDisk[k].url]
                   /\ c.op = "update"
                        => /\ c.sent = <<Ev("list", <<>>, NoUrl)>>
                           /\ c.pc = "done"
                           /\ Len(c.results) = Len(c.docs)
                           /\ \A k \in 1..Len(c.results) :
                                 c.results[k] = [NoResult EXCEPT !.error = "File not found"])
    /\ [][\A p \in Callers :
            (call[p].pc = "list_wait" /\ call'[p].faults = call[p].faults + 1)
                => (ListRejected(call'[p]) /\ call'[p].pc # "raised")]_vars

\* C30 witness: add_files has returned after a rejected list call on a
\* knowledge base that holds a file with the URL of one of its documents;
\* the document was uploaded all the same.
C30_Witness ==
    LET c == call["c1"]
    IN  /\ c.op = "add" /\ c.pc = "done" /\ ListRejected(c)
        /\ \E k \in 1..Len(c.docs) :
              /\ c.docs[k].url \in UrlsOf(c.kbBefore)
              /\ c.docs[k].url \in Range(UploadedUrls(c))

\* The id a result record of add_files carries: result["id"] of a success
\* record, file_id of a failure record.
RecordId(r) == IF r.success THEN r.result_id ELSE r.file_id

\* The file ids the uploads of the batches gs returned, in order.
RECURSIVE UploadedOf(_)
UploadedOf(gs) ==
    IF gs = <<>> THEN <<>>
    ELSE uploaded_ids(Head(gs)) \o UploadedOf(Tail(gs))

\* C31: when add_files has returned, the ids its records carry are the file
\* ids its uploads returned, each once (under result["id"] in a success
\* record, under file_id in a failure record); and the records a step of
\* add_files appends carry the file ids of the attach call just answered,
\* with success exactly when that step attached the file.
C31_RecordsMatchUploads ==
    /\ [](\A p \in Callers :
            LET c == call[p]
                ids == UploadedOf(c.gathered)
            IN  (c.op = "add" /\ c.pc = "done")
                => /\ Len(c.results) = Len(ids)
                   /\ \A k \in 1..Len(ids) :
                         /\ RecordId(c.results[k]) = ids[k]
                         /\ c.results[k].success => c.results[k].file_id = None
                         /\ ~c.results[k].success => c.results[k].result_id = None
                   /\ \A j, k \in 1..Len(ids) : ids[j] = ids[k] => j = k)
    /\ [][\A p \in Callers :
            (/\ call[p].op = "add" /\ call'[p].op = "add"
             /\ Len(call'[p].results) > Len(call[p].results))
                => (/\ Len(call'[p].results)
                        = Len(call[p].results) + Len(call[p].batch_file_ids)
                    /\ \A k \in 1..Len(call[p].batch_file_ids) :
                          (/\ RecordId(call'[p].results[Len(call[p].results) + k])
                                = call[p].batch_file_ids[k]
                           /\ call'[p].results[Len(call[p].results) + k].success
                                <=> (/\ call[p].batch_file_ids[k] \in Range(kbFiles')
                                     /\ call[p].batch_file_ids[k] \notin Range(kbFiles))))]_vars

\* C31 witness: add_files has returned after two attach calls, one accepted
\* and one rejected: its records hold an attached file under result["id"]
\* and an uploaded file that is not attached under file_id.
C31_Witness ==
    LET c == call["c1"]
    IN  /\ c.op = "add" /\ c.pc = "done"
        /\ Len(Sent(c, "attach")) = 2
        /\ \E k \in 1..Len(c.results) :
              c.results[k].success /\ Attached(c.results[k].result_id)
        /\ \E k \in 1..Len(c.results) :
              /\ ~c.results[k].success /\ c.results[k].file_id # None
              /\ ~Attached(c.results[k].file_id)

\* The URLs of the documents of c.
DocUrls(c) == { c.docs[k].url : k \in 1..Len(c.docs) } \ {NoUrl}

\* The file id the remove call c is waiting for targets.
RemoveTarget(c) ==
    IF c.op = "update" THEN c.file_id ELSE c.file_ids[c.i + 1]

\* C32: every remove call of update_files targets a file whose embedded URL
\* is the URL of one of its documents; the remove calls of remove_files
\* target the ids of its input, in order; a step that detaches a file is the
\* answer to the remove call of an update_files or remove_files in progress
\* and detaches the target of that call only, the other attached files
\* keeping their place; and no step changes a stored file.
C32_OnlyTargetsRemoved ==
    /\ [](\A p \in Callers :
            LET c == call[p]
                removes == Sent(c, "remove")
            IN  /\ c.op = "update"
                    => \A k \in 1..Len(removes) :
                          files[removes[k].ids[1]] \in DocUrls(c)
                /\ c.op = "remove"
                    => /\ Len(removes) <= Len(c.file_ids)
                       /\ \A k \in 1..Len(removes) :
                             removes[k].ids = <<c.file_ids[k]>>)
    /\ [][(/\ Len(files') >= Len(files)
            /\ SubSeq(files', 1, Len(files)) = files
            /\ (Range(kbFiles) \ Range(kbFiles')) # {}
                => \E p \in Callers :
                      (/\ call[p].op \in {"update", "remove"}
                       /\ call[p].pc = "remove_wait"
                       /\ kbFiles' = SelectSeq(kbFiles,
                                         LAMBDA x : x # RemoveTarget(call[p]))))]_vars

\* C32 witness: update_files has returned after removing a file; a file that
\* was attached before the call and carries the URL of none of its documents
\* is still attached.
C32_Witness ==
    LET c == call["c1"]
    IN  /\ c.op = "update" /\ c.pc = "done"
        /\ \E k \in 1..Len(Sent(c, "remove")) :
              ~Attached(Sent(c, "remove")[k].ids[1])
        /\ \E id \in Range(c.kbBefore) :
              files[id] \notin DocUrls(c) /\ Attached(id)

\* The URLs the file list c fetched carries.
ListedUrls(c) == existing_files(c.knowledge_files)

\* The URLs add_files call c uploads: selected, and the path exists.
UploadsOf(c) ==
    { c.to_upload[k].url : k \in { j \in 1..Len(c.to_upload) : path_exists(c.to_upload[j]) } }

\* C33: two add_files calls on one knowledge base do not wait for each
\* other.  Each selects its documents from the file list it fetched itself,
\* whatever the other call has done since; and when both have returned with
\* every remote call accepted, a URL both uploaded is carried by two
\* attached files at least.
C33_NoCrossCallLock ==
    \A p, q \in Callers :
        LET c == call[p]
            d == call[q]
        IN  (p # q /\ c.op = "add" /\ d.op = "add" /\ c.fetched /\ d.fetched)
            => /\ c.to_upload
                    = SelectSeq(c.docs, LAMBDA x : /\ x.url # NoUrl
                                                   /\ x.url \notin ListedUrls(c))
               /\ (c.pc = "done" /\ d.pc = "done" /\ c.faults = 0 /\ d.faults = 0)
                    => \A u \in UploadsOf(c) \cap UploadsOf(d) : CountUrl(kbFiles, u) >= 2

\* C33 witness: two add_files calls with the same single document started
\* on the empty knowledge base, both read the URL as absent, both have
\* returned a success record, and two attached files carry the URL.
C33_Witness ==
    LET c == call["c1"]
        d == call["c2"]
    IN  /\ c.op = "add" /\ d.op = "add" /\ c.pc = "done" /\ d.pc = "done"
        /\ c.docs = <<Doc("a.md", "u1")>> /\ d.docs = c.docs
        /\ c.fetched /\ d.fetched
        /\ c.kbBefore = <<>> /\ d.kbBefore = <<>>
        /\ "u1" \notin ListedUrls(c) /\ "u1" \notin ListedUrls(d)
        /\ Len(c.results) = 1 /\ c.results[1].success
        /\ Len(d.results) = 1 /\ d.results[1].success
        /\ CountUrl(kbFiles, "u1") = 2

\* The documents of c whose metadata carries no URL.
WithoutUrl(c) == SelectSeq(c.docs, LAMBDA x : x.url = NoUrl)

\* C34: add_files makes no remote call for a document without URL: once the
\* file list is answered no such document is selected, every one of them
\* is warned about, no upload call or upload in flight is for one, and the
\* call returns no more records than it has documents with a URL.
C34_NoUrlNoUpload ==
    \A p \in Callers :
        LET c == call[p]
        IN  (c.op = "add" /\ c.pc \notin {"idle", "list_wait"} /\ c.raised_in # "list")
            => /\ \A k \in 1..Len(c.to_upload) : c.to_upload[k].url # NoUrl
               /\ c.warnings >= Len(WithoutUrl(c))
               /\ \A k \in 1..Len(c.sent) :
                     c.sent[k].kind = "upload" => c.sent[k].url # NoUrl
               /\ Len(Sent(c, "upload")) <= Len(c.docs) - Len(WithoutUrl(c))
               /\ \A r \in net : (r.proc = p /\ r.kind = "upload") => r.url # NoUrl
               /\ Len(c.results) <= Len(c.docs) - Len(WithoutUrl(c))

\* C34 witness: add_files has returned for a document without URL whose
\* path exists and a document with a URL: one upload, one record, and the
\* document without URL was warned about.
C34_Witness ==
    LET c == call["c1"]
    IN  /\ c.op = "add" /\ c.pc = "done" /\ c.fetched
        /\ Len(c.docs) = 2
        /\ \E k \in 1..2 : c.docs[k].url = NoUrl /\ path_exists(c.docs[k])
        /\ Len(Sent(c, "upload")) = 1
        /\ Len(c.results) = 1 /\ c.results[1].success
        /\ c.warnings = 1
====
